---- MODULE Spec2Model ----
(***************************************************************************)
(* Model of only_one's `One<T>` (src/src/one.rs): a newtype of Option<T>   *)
(* whose value can be consumed once with `take`, and whose dereferences    *)
(* panic once the value is gone.                                           *)
(*                                                                         *)
(* A panic unwinds and the instance survives it (a caller may catch the    *)
(* unwind, and destructors such as the documented Worker::drop run on the  *)
(* instance while unwinding), so operations may follow a panicked one.     *)
(***************************************************************************)
EXTENDS Integers, Sequences, FiniteSets, TLC

\* T is modelled by the integers 0..MaxVal.
MaxVal == 1

\* Number of One<T> instances the program may create.
NumSlots == 2

\* Cap of the counter ntake: take is not explored further on an instance
\* whose take has already returned MaxTakes times.
MaxTakes == 2

\* Longest sequence of calls made on an instance to observe it.
MaxOps == 3

Values == 0 .. MaxVal

Slots == 1 .. NumSlots

\* T::default() of the modelled T (the least value, as 0 is for integers).
T_default == CHOOSE v \in Values : \A w \in Values : v <= w

(***************************************************************************)
(* core::option::Option<V>: None is the empty sequence, Some(v) is <<v>>.  *)
(***************************************************************************)
None == << >>

Some(v) == << v >>

is_some(o) == Len(o) = 1

\* Option::take: leaves None in the place and returns what was there.
Option_take(o) == [place |-> None, ret |-> o]

\* Option::as_ref / Option::as_mut: Some(reference to the payload) or None.
\* A reference is modelled by the value it points at.
as_ref(o) == IF is_some(o) THEN Some(o[1]) ELSE None

as_mut(o) == IF is_some(o) THEN Some(o[1]) ELSE None

\* <Option<T> as Default>::default()
Option_default == None

\* T's own comparisons and clone, for the integers that model T.
T_eq(a, b) == a = b

T_cmp(a, b) == IF a < b THEN "Less" ELSE IF a = b THEN "Equal" ELSE "Greater"

T_clone(a) == a

\* <Option<T> as PartialEq>::eq: equal variants, and equal payloads.
Option_eq(l, r) ==
  CASE is_some(l) /\ is_some(r)   -> T_eq(l[1], r[1])
    [] ~is_some(l) /\ ~is_some(r) -> TRUE
    [] OTHER                       -> FALSE

\* <Option<T> as Ord>::cmp: None is less than every Some, and two Some
\* compare as their payloads do.
Option_cmp(l, r) ==
  CASE is_some(l) /\ is_some(r)   -> T_cmp(l[1], r[1])
    [] ~is_some(l) /\ ~is_some(r) -> "Equal"
    [] ~is_some(l) /\ is_some(r)  -> "Less"
    [] OTHER                       -> "Greater"

\* <Option<T> as Clone>::clone
Option_clone(o) == IF is_some(o) THEN Some(T_clone(o[1])) ELSE None

(***************************************************************************)
(* Results of a call: a returned T, a returned bool, unit, or a panic.     *)
(***************************************************************************)
Ok(v) == [kind |-> "value", val |-> v]

OkBool(b) == [kind |-> "bool", b |-> b]

OkOrd(o) == [kind |-> "ordering", ord |-> o]

Unit == [kind |-> "unit"]

Panic(m) == [kind |-> "panic", msg |-> m]

(***************************************************************************)
(* struct One<T>(Option<T>) and its functions.                             *)
(***************************************************************************)
\* The tuple struct constructor Self(x); field `opt` is field 0.
Self(x) == [opt |-> x]

\* The state of an instance that has not been created yet.
Unborn == [opt |-> "unborn"]

expect_msg == "Value taken already."

\* Bug variant of expect: x.unwrap_or_default(), an empty Option yields
\* T's default instead of a panic.
expect_OrDefault(x) == IF is_some(x) THEN Ok(x[1]) ELSE Ok(T_default)

\* One::expect: x.expect("Value taken already.")
expect(x) == IF is_some(x) THEN Ok(x[1]) ELSE Panic(expect_msg)

\* One::new
new(value) == Self(Some(value))

\* One::none
none == Self(None)

\* Bug variant of default: Self(Some(T::default())).
default_OfT == Self(Some(T_default))

\* <One<T> as Default>::default
default == Self(Option_default)

\* Bug variant of from: the value is dropped and Self::default() returned.
from_Default(value) == default

\* <One<T> as From<T>>::from
from(value) == new(value)

\* Bug variant of exists: this.0.is_none().
exists_Inverted(this) == ~is_some(this.opt)

\* Bug variant of exists: always true.
exists_Always(this) == TRUE

\* One::exists
exists(this) == is_some(this.opt)

\* Bug variant of take: the value is returned but left in the instance
\* (this.0.clone() instead of this.0.take()).
take_Peek(this) == [this |-> this, res |-> expect(this.opt)]

\* One::take: the instance afterwards, and the call's result.
take(this) ==
  LET t == Option_take(this.opt)
  IN  [this |-> Self(t.place), res |-> expect(t.ret)]

\* Bug variant of deref: self.0.as_ref().unwrap(), which panics with the
\* standard library's message.
deref_Unwrap(self) ==
  IF is_some(self.opt) THEN Ok(self.opt[1])
  ELSE Panic("called Option::unwrap() on a None value")

\* Deref::deref: the call's result (the value behind the returned reference).
deref(self) == expect(as_ref(self.opt))

\* Bug variant of deref_mut: self.0.insert(value), which fills an empty
\* instance instead of panicking.
deref_mut_Insert(self, value) == [this |-> Self(Some(value)), res |-> Ok(value)]

\* Bug variant of deref_mut: self.0.take() instead of self.0.as_mut(), which
\* empties the instance.
deref_mut_Take(self, value) == [this |-> Self(None), res |-> expect(self.opt)]

\* Bug variant of deref_mut: the reference returned points at a copy, so the
\* assignment through it is lost.
deref_mut_Discard(self, value) == [this |-> self, res |-> expect(as_mut(self.opt))]

\* DerefMut::deref_mut followed by an assignment `*one = value` through the
\* returned reference: the instance afterwards, and the call's result.
deref_mut(self, value) ==
  LET r == expect(as_mut(self.opt))
  IN  [this |-> IF r.kind = "panic" THEN self ELSE Self(Some(value)),
       res  |-> r]

\* Bug variant of eq: a hand-written comparison of the payloads taken with
\* unwrap_or_default, under which an empty instance equals one that holds
\* T's default.
eq_OrDefault(self, other) ==
  T_eq(IF is_some(self.opt) THEN self.opt[1] ELSE T_default,
       IF is_some(other.opt) THEN other.opt[1] ELSE T_default)

\* derive(PartialEq, Eq): the fields 0 are compared.
eq(self, other) == Option_eq(self.opt, other.opt)

\* Bug variant of cmp: a hand-written ordering that puts the empty instance
\* after the ones that hold a value.
cmp_NoneLast(self, other) ==
  CASE is_some(self.opt) /\ is_some(other.opt)   -> T_cmp(self.opt[1], other.opt[1])
    [] ~is_some(self.opt) /\ ~is_some(other.opt) -> "Equal"
    [] ~is_some(self.opt) /\ is_some(other.opt)  -> "Greater"
    [] OTHER                                      -> "Less"

\* derive(PartialOrd, Ord): the fields 0 are compared.
cmp(self, other) == Option_cmp(self.opt, other.opt)

\* Bug variant of clone: a hand-written clone that returns Self::default().
clone_Default(self) == default

\* derive(Clone, Copy): the field 0 is cloned (copied).
clone(self) == Self(Option_clone(self.opt))

\* The calls that observe one instance, and what a call o does to the
\* instance `one`: the instance afterwards, and the call's result.
OpSet ==
  {[op |-> o] : o \in {"exists", "take", "deref"}}
    \cup {[op |-> "deref_mut", value |-> v] : v \in Values}

apply(one, o) ==
  CASE o.op = "exists"    -> [this |-> one, res |-> OkBool(exists(one))]
    [] o.op = "take"      -> take(one)
    [] o.op = "deref"     -> [this |-> one, res |-> deref(one)]
    [] o.op = "deref_mut" -> deref_mut(one, o.value)

\* The results of the calls ops made in turn on the instance `one`.
RECURSIVE Run(_, _)
Run(one, ops) ==
  IF ops = << >> THEN << >>
  ELSE LET a == apply(one, Head(ops))
       IN  << a.res >> \o Run(a.this, Tail(ops))

\* The sequences of at most n calls.
OpSeqs(n) == UNION {[1 .. k -> OpSet] : k \in 0 .. n}

Ctors == {"new", "none", "default", "from"}

\* The instance a constructor call makes.
construct(c, v) ==
  CASE c = "new"     -> new(v)
    [] c = "none"    -> none
    [] c = "default" -> default
    [] c = "from"    -> from(v)

\* The argument a constructor takes (T_default stands for `no argument`).
CtorArgs(c) == IF c \in {"new", "from"} THEN Values ELSE {T_default}

VARIABLES
  slots,    \* slots[s]: the One<T> instance s, or Unborn
  ctor,     \* ctor[s]: the constructor that made s ("unborn" before)
  lastSet,  \* lastSet[s]: Some(the value last given to s, by its constructor
            \*             or by a write that returned) until a take on s
            \*             returns, None otherwise
  written,  \* written[s]: a write to s has returned (did not panic)
  ntake,    \* ntake[s]: the number of calls of take on s that returned
  last      \* the last call: its operation, its instance and its result

vars == << slots, ctor, lastSet, written, ntake, last >>

Born(s) == ctor[s] /= "unborn"

Call(op, s, res) == [op |-> op, slot |-> s, res |-> res]

\* A call on instance s that also takes instance t.
Call2(op, s, t, res) == [op |-> op, slot |-> s, other |-> t, res |-> res]

InitWith(c, v) ==
  /\ slots = [s \in Slots |-> IF s = 1 THEN construct(c, v) ELSE Unborn]
  /\ ctor = [s \in Slots |-> IF s = 1 THEN c ELSE "unborn"]
  /\ lastSet = [s \in Slots |-> IF s = 1 /\ c \in {"new", "from"} THEN Some(v) ELSE None]
  /\ written = [s \in Slots |-> FALSE]
  /\ ntake = [s \in Slots |-> 0]
  /\ last = Call(c, 1, Unit)

Init == \E c \in Ctors : \E v \in CtorArgs(c) : InitWith(c, v)

\* The program creates one more instance.
Construct(s, c, v) ==
  /\ ~Born(s)
  /\ \A t \in Slots : t < s => Born(t)
  /\ slots' = [slots EXCEPT ![s] = construct(c, v)]
  /\ ctor' = [ctor EXCEPT ![s] = c]
  /\ lastSet' = [lastSet EXCEPT ![s] = IF c \in {"new", "from"} THEN Some(v) ELSE None]
  /\ last' = Call(c, s, Unit)
  /\ UNCHANGED << written, ntake >>

\* One::exists(&slot)
Exists(s) ==
  /\ Born(s)
  /\ last' = Call("exists", s, OkBool(exists(slots[s])))
  /\ UNCHANGED << slots, ctor, lastSet, written, ntake >>

\* One::take(&mut slot)
Take(s) ==
  /\ Born(s)
  /\ ntake[s] < MaxTakes
  /\ LET t == take(slots[s])
     IN  /\ slots' = [slots EXCEPT ![s] = t.this]
         /\ last' = Call("take", s, t.res)
         /\ ntake' = [ntake EXCEPT ![s] = IF t.res.kind = "panic" THEN @ ELSE @ + 1]
         /\ lastSet' = [lastSet EXCEPT ![s] = IF t.res.kind = "panic" THEN @ ELSE None]
  /\ UNCHANGED << ctor, written >>

\* A read through the instance: &*slot
Deref(s) ==
  /\ Born(s)
  /\ last' = Call("deref", s, deref(slots[s]))
  /\ UNCHANGED << slots, ctor, lastSet, written, ntake >>

\* A write through the instance: *slot = v
DerefMut(s, v) ==
  /\ Born(s)
  /\ LET w == deref_mut(slots[s], v)
     IN  /\ slots' = [slots EXCEPT ![s] = w.this]
         /\ last' = Call("deref_mut", s, w.res)
         /\ lastSet' = [lastSet EXCEPT ![s] = IF w.res.kind = "panic" THEN @ ELSE Some(v)]
         /\ written' = [written EXCEPT ![s] = @ \/ w.res.kind /= "panic"]
  /\ UNCHANGED << ctor, ntake >>

\* slot_s == slot_t
Eq(s, t) ==
  /\ Born(s)
  /\ Born(t)
  /\ last' = Call2("eq", s, t, OkBool(eq(slots[s], slots[t])))
  /\ UNCHANGED << slots, ctor, lastSet, written, ntake >>

\* slot_s.cmp(&slot_t)
Cmp(s, t) ==
  /\ Born(s)
  /\ Born(t)
  /\ last' = Call2("cmp", s, t, OkOrd(cmp(slots[s], slots[t])))
  /\ UNCHANGED << slots, ctor, lastSet, written, ntake >>

\* The program creates one more instance, t, as slot_s.clone() (or as a
\* copy of slot_s).
Clone(s, t) ==
  /\ Born(s)
  /\ ~Born(t)
  /\ \A u \in Slots : u < t => Born(u)
  /\ slots' = [slots EXCEPT ![t] = clone(slots[s])]
  /\ ctor' = [ctor EXCEPT ![t] = "clone"]
  /\ lastSet' = [lastSet EXCEPT ![t] = lastSet[s]]
  /\ last' = Call2("clone", t, s, Unit)
  /\ UNCHANGED << written, ntake >>

\* The pairs of instances that are compared: an earlier instance with a
\* later one.  Each instance of a pair can be in every state an instance
\* can be in, so every pair of instance values is compared, in both orders.
Pairs == {p \in Slots \X Slots : p[1] < p[2]}

Next ==
  \/ \E s \in Slots : \E c \in Ctors : \E v \in CtorArgs(c) : Construct(s, c, v)
  \/ \E s \in Slots : Exists(s)
  \/ \E s \in Slots : Take(s)
  \/ \E s \in Slots : Deref(s)
  \/ \E s \in Slots : \E v \in Values : DerefMut(s, v)
  \/ \E p \in Pairs : Eq(p[1], p[2])
  \/ \E p \in Pairs : Cmp(p[1], p[2])
  \/ \E s, t \in Slots : Clone(s, t)

Spec == Init /\ [][Next]_vars

(***************************************************************************)
(* Properties.                                                             *)
(***************************************************************************)
\* The step is a call, on instance s, of one of the operations ops: every
\* action sets `last` to the call it makes.
Calls(s, ops) == last'.slot = s /\ last'.op \in ops

Accesses == {"deref", "deref_mut", "take"}

\* C1: extraction is exactly-once per instance.  Once a take on an instance
\* has returned, every later take, read and write on that instance panics
\* with "Value taken already." whatever was called in between, so take
\* returns at most once on an instance.
C1_ExactlyOnce ==
  /\ [](\A s \in Slots : ntake[s] <= 1)
  /\ [][\A s \in Slots :
          (ntake[s] >= 1 /\ Calls(s, Accesses))
          => /\ last'.res = Panic("Value taken already.")
             /\ ntake'[s] = ntake[s]]_vars

\* C1 witness: a second take on an instance whose value was taken panicked.
C1_Witness ==
  \E s \in Slots :
    /\ ntake[s] = 1
    /\ last = Call("take", s, Panic("Value taken already."))

\* C2: take on an instance that holds a value returns the value the instance
\* holds (the constructor's argument, or the value of the most recent write),
\* and exists is false on the instance right afterwards.
C2_TakeReturnsAndEmpties ==
  [][\A s \in Slots :
       (Calls(s, {"take"}) /\ slots[s].opt /= None)
       => /\ lastSet[s] /= None
          /\ last'.res = Ok(lastSet[s][1])
          /\ ~exists(slots'[s])]_vars

\* C2 witness: a take returned a value, after a write to the instance, and
\* exists is false on it.
C2_Witness ==
  \E s \in Slots :
    /\ written[s]
    /\ last.op = "take"
    /\ last.slot = s
    /\ last.res.kind = "value"
    /\ ~exists(slots[s])

\* C3 as the specification states it: right after default-construction the
\* instance holds T's default, so exists is true and a read yields it.
C3_DefaultHoldsDefaultOfT ==
  \A s \in Slots :
    last = Call("default", s, Unit)
    => /\ exists(slots[s])
       /\ deref(slots[s]) = Ok(T_default)

\* C3 amended: right after default-construction the instance is empty, so
\* exists is false and a read panics with "Value taken already.".
C3_DefaultIsEmpty ==
  \A s \in Slots :
    last = Call("default", s, Unit)
    => /\ ~exists(slots[s])
       /\ deref(slots[s]) = Panic("Value taken already.")

\* C3 witness: an instance has just been default-constructed.
C3_Witness ==
  \E s \in Slots :
    /\ last = Call("default", s, Unit)
    /\ ctor[s] = "default"
    /\ slots[s].opt = None

\* C4 (invariant I3): an instance that is empty, constructed so or emptied by
\* take, stays empty under every operation, the panicking ones included.
C4_AbsentForever ==
  [][\A s \in Slots :
       (Born(s) /\ slots[s].opt = None) => slots'[s].opt = None]_vars

\* C4 witness: a write was tried on an instance emptied by take, and the
\* instance is empty.
C4_Witness ==
  \E s \in Slots :
    /\ ntake[s] = 1
    /\ last = Call("deref_mut", s, Panic("Value taken already."))
    /\ slots[s].opt = None

\* C5 (invariant I2): an instance goes from holding a value to empty only in
\* a take; exists, a read and a write (with its assignment) leave the
\* instance's presence as it was.
C5_OnlyTakeEmpties ==
  [][\A s \in Slots :
       /\ (Born(s) /\ slots[s].opt /= None /\ slots'[s].opt = None)
          => Calls(s, {"take"})
       /\ Calls(s, {"exists", "deref", "deref_mut"})
          => ((slots'[s].opt = None) <=> (slots[s].opt = None))]_vars

\* C5 witness: a write returned on an instance, which still holds a value.
C5_Witness ==
  \E s \in Slots :
    /\ last.op = "deref_mut"
    /\ last.slot = s
    /\ last.res.kind = "value"
    /\ slots[s].opt = lastSet[s]
    /\ slots[s].opt /= None

\* C6: for an instance made by none, every read, write and take panics with
\* "Value taken already.", none of them ever returns, and the instance is
\* empty throughout.
C6_NoneNeverAccessible ==
  \A s \in Slots :
    ctor[s] = "none"
    => /\ slots[s].opt = None
       /\ ntake[s] = 0
       /\ ~written[s]
       /\ (last.slot = s /\ last.op \in Accesses)
          => last.res = Panic("Value taken already.")

\* C6 witness: a take on an instance made by none panicked.
C6_Witness ==
  \E s \in Slots :
    /\ ctor[s] = "none"
    /\ last = Call("take", s, Panic("Value taken already."))

\* C7: a read, a write and a take fail alike: each panics with the one
\* message "Value taken already." when the instance is empty, and returns a
\* value when it is not.
C7_SameFailure ==
  [][\A s \in Slots :
       Calls(s, Accesses)
       => IF slots[s].opt = None
          THEN last'.res = Panic("Value taken already.")
          ELSE last'.res.kind = "value"]_vars

\* C7 witness: a read of an empty instance panicked with the message.
C7_Witness ==
  \E s \in Slots :
    /\ Born(s)
    /\ slots[s].opt = None
    /\ last = Call("deref", s, Panic("Value taken already."))

\* C8: a read of an instance that holds a value yields the value last given
\* to it: the constructor's argument, or that of the most recent write.
C8_ReadWriteTransparent ==
  \A s \in Slots :
    Born(s)
    => /\ slots[s].opt /= None
          => (lastSet[s] /= None /\ deref(slots[s]) = Ok(lastSet[s][1]))
       /\ (last.slot = s /\ last.op = "deref" /\ last.res.kind = "value")
          => lastSet[s] = Some(last.res.val)

\* C8 witness: a read returned the value a write had stored.
C8_Witness ==
  \E s \in Slots :
    /\ written[s]
    /\ lastSet[s] /= None
    /\ last = Call("deref", s, Ok(lastSet[s][1]))

\* C9: right after new(v), for every v, exists is true; right after none,
\* exists is false.
C9_PresenceAfterConstruction ==
  \A s \in Slots :
    /\ last = Call("new", s, Unit) => exists(slots[s])
    /\ last = Call("none", s, Unit) => ~exists(slots[s])

\* C9 witness: one instance made by new and untouched since, and one just
\* made by none.
C9_Witness ==
  \E s, t \in Slots :
    /\ ctor[s] = "new"
    /\ ~written[s]
    /\ ntake[s] = 0
    /\ exists(slots[s])
    /\ last = Call("none", t, Unit)
    /\ ~exists(slots[t])

\* C10: exists and a read are pure.  exists returns, in either state, true
\* iff the instance holds a value; neither call changes any instance; and a
\* read repeated right away yields the same result.
C10_PureQueries ==
  [][\A s \in Slots :
       /\ Calls(s, {"exists"})
          => /\ last'.res = OkBool(slots[s].opt /= None)
             /\ slots' = slots
             /\ OkBool(exists(slots'[s])) = last'.res
       /\ Calls(s, {"deref"})
          => /\ slots' = slots
             /\ deref(slots'[s]) = last'.res]_vars

\* C10 witness: exists returned false on an instance emptied by take.
C10_Witness ==
  \E s \in Slots :
    /\ ntake[s] = 1
    /\ last = Call("exists", s, OkBool(FALSE))

\* The instance holds a value / holds none, by the values it was given and
\* the takes that returned on it.
Present(s) == Born(s) /\ lastSet[s] /= None

Absent(s) == Born(s) /\ lastSet[s] = None

\* C11: two instances compare equal iff both are empty, or both hold a
\* value and the values are equal; an instance that holds a value never
\* equals an empty one, emptied by take or made empty.
C11_EqualityLaw ==
  \A s, t \in Slots :
    (Born(s) /\ Born(t))
    => LET same == \/ Absent(s) /\ Absent(t)
                   \/ Present(s) /\ Present(t) /\ lastSet[s][1] = lastSet[t][1]
       IN  /\ eq(slots[s], slots[t]) <=> same
           /\ (last.op = "eq" /\ last.slot = s /\ last.other = t)
              => last.res = OkBool(same)

\* C11 witness: an instance that holds a value was compared with one that a
\* take had emptied, and they were not equal.
C11_Witness ==
  \E s, t \in Slots :
    /\ Present(s)
    /\ ntake[t] = 1
    /\ last = Call2("eq", s, t, OkBool(FALSE))

\* C12: an empty instance sorts strictly before every instance that holds a
\* value, and two instances that hold values compare as the values do under
\* T's ordering.
C12_OrderingLaw ==
  \A s, t \in Slots :
    (Born(s) /\ Born(t))
    => /\ (Absent(s) /\ Present(t))
          => /\ cmp(slots[s], slots[t]) = "Less"
             /\ cmp(slots[t], slots[s]) = "Greater"
       /\ (Present(s) /\ Present(t))
          => cmp(slots[s], slots[t]) = T_cmp(lastSet[s][1], lastSet[t][1])
       /\ (last.op = "cmp" /\ last.slot = s /\ last.other = t)
          => /\ (Absent(s) /\ Present(t)) => last.res = OkOrd("Less")
             /\ (Present(s) /\ Absent(t)) => last.res = OkOrd("Greater")
             /\ (Present(s) /\ Present(t))
                => last.res = OkOrd(T_cmp(lastSet[s][1], lastSet[t][1]))

\* C12 witness: an instance emptied by take was compared with one that
\* holds a value, and was less.
C12_Witness ==
  \E s, t \in Slots :
    /\ ntake[s] = 1
    /\ Present(t)
    /\ last = Call2("cmp", s, t, OkOrd("Less"))

\* A second case of C12: two instances holding different values compared as
\* the values do.
C12_WitnessValues ==
  \E s, t \in Slots :
    /\ Present(s)
    /\ Present(t)
    /\ lastSet[s][1] > lastSet[t][1]
    /\ last = Call2("cmp", s, t, OkOrd("Greater"))

\* The instances a and b cannot be told apart: same presence, same value
\* read, equal under ==, and the same results for every sequence of at most
\* MaxOps calls of exists, read, write and take.
Alike(a, b) ==
  /\ exists(a) = exists(b)
  /\ deref(a) = deref(b)
  /\ eq(a, b)
  /\ \A ops \in OpSeqs(MaxOps) : Run(a, ops) = Run(b, ops)

\* For every value v, from(v) and new(v) cannot be told apart.
FromAlikeNew == \A v \in Values : Alike(from(v), new(v))

\* C13: the instance from(v) makes cannot be told apart from new(v): the
\* instance just made by a call from(v) holds v, it is the instance from(v),
\* and from(v) is like new(v) in the sense of Alike.
C13_ConversionLaw ==
  \A t \in Slots :
    last = Call("from", t, Unit)
    => /\ Present(t)
       /\ deref(slots[t]) = Ok(lastSet[t][1])
       /\ slots[t] = from(lastSet[t][1])
       /\ FromAlikeNew

\* C13 witness: an instance was just made by from(v) while an untouched
\* instance made by new(v) exists, and the two are equal.
C13_Witness ==
  \E s, t \in Slots :
    /\ ctor[s] = "new"
    /\ ~written[s]
    /\ ntake[s] = 0
    /\ last = Call("from", t, Unit)
    /\ lastSet[s] = lastSet[t]
    /\ eq(slots[s], slots[t])

\* default and none cannot be told apart.
DefaultAlikeNone == Alike(default, none)

\* C14: an instance made by default cannot be told apart from one made by
\* none: exists is false on it, a read, a write and a take panic with
\* "Value taken already.", it is like none in the sense of Alike, and it
\* compares equal to every instance made by none.
C14_DefaultLikeNone ==
  \A s \in Slots :
    /\ last = Call("default", s, Unit)
       => /\ slots[s] = default
          /\ DefaultAlikeNone
    /\ ctor[s] = "default"
       => /\ ~exists(slots[s])
          /\ deref(slots[s]) = Panic("Value taken already.")
          /\ take(slots[s]).res = Panic("Value taken already.")
          /\ \A v \in Values :
               deref_mut(slots[s], v).res = Panic("Value taken already.")
          /\ \A t \in Slots :
               ctor[t] = "none"
               => /\ eq(slots[s], slots[t])
                  /\ exists(slots[s]) = exists(slots[t])
                  /\ (last.op = "eq" /\ last.slot = s /\ last.other = t)
                     => last.res = OkBool(TRUE)

\* C14 witness: an instance made by default was compared with one made by
\* none, and they were equal.
C14_Witness ==
  \E s, t \in Slots :
    /\ ctor[s] = "default"
    /\ ctor[t] = "none"
    /\ last = Call2("eq", s, t, OkBool(TRUE))

\* C15: a clone (or copy) of an instance starts with the presence and the
\* value of the original, and the two are independent afterwards: a write
\* or a take on an instance leaves every other instance as it was, making a
\* clone leaves the original as it was, and a clone keeps the value it was
\* given, until it is written or taken itself, whatever is done to the others.
C15_CloneIndependent ==
  /\ [](\A t \in Slots :
          /\ (last.op = "clone" /\ last.slot = t)
             => /\ exists(slots[t]) = exists(slots[last.other])
                /\ deref(slots[t]) = deref(slots[last.other])
                /\ eq(slots[t], slots[last.other])
          /\ ctor[t] = "clone"
             => /\ ntake[t] <= 1
                /\ exists(slots[t]) <=> Present(t)
                /\ Present(t) => deref(slots[t]) = Ok(lastSet[t][1]))
  /\ [][\A s \in Slots :
          /\ Calls(s, {"deref_mut", "take"})
             => \A u \in Slots \ {s} : slots'[u] = slots[u]
          /\ Calls(s, {"clone"})
             => \A u \in Slots \ {s} : slots'[u] = slots[u]]_vars

\* C15 witness: the second instance is a clone of the first, and a take has
\* returned once on each of the two.
C15_Witness ==
  /\ ctor[2] = "clone"
  /\ ntake[1] = 1
  /\ ntake[2] = 1
  /\ last.op = "take"

====
